---- MODULE Spec2Model ----
(***************************************************************************)
(* LocalSkillServiceEngineService: a local publish/subscribe and request   *)
(* dispatch broker.  The model follows                                      *)
(* src/LocalSkillServiceEngineService.cpp: every critical section taken    *)
(* under m_subscriptionMutex or m_handlerMutex is one action, the code run *)
(* between two critical sections by the handler executor thread or by the  *)
(* publish executor thread is an action of its own.                        *)
(***************************************************************************)
EXTENDS Naturals, Sequences, FiniteSets, TLC

(***************************************************************************)
(* Bounds of the model.                                                    *)
(***************************************************************************)
\* most deliveries the publish executor holds (queued or running): in the
\* specifications that run the whole broker, and in those of the publish pipeline alone
MaxPublishQueue == 1
MaxFanOut == 2
\* most handler tasks the handler executor holds (queued or running): in the
\* specifications that run the whole broker, and in that of the dispatcher
MaxHandlerQueue == 1
MaxDispatchQueue == 2
\* longest persisted array the storage holds before the broker is constructed
MaxStored == 2

(***************************************************************************)
(* Values.                                                                 *)
(***************************************************************************)
Ids == {"t", "u"}

\* a Subscriber is the pair (endpoint, path)
SubscriberA == [endpoint |-> "/tmp/a.sock", path |-> "/cb"]

SubscriberB == [endpoint |-> "/tmp/b.sock", path |-> "/cb"]

\* a null std::function / a null shared_ptr
Null == "null"

\* a missing (or non-string) member of a persisted entry
Missing == "<missing>"

\* request paths: the two built-ins, one registered by a collaborator, one never registered
SubscribePath == "/subscribe"
UnsubscribePath == "/unsubscribe"
EchoPath == "/echo"
PingPath == "/ping"
Paths == {SubscribePath, UnsubscribePath, EchoPath, PingPath}

Methods == {"GET", "POST"}

\* what request->IsObject() through the null jsonRequest of a request that is no POST
\* may do (undefined behaviour): end the process, or read a type that is no object
NullDereference == {"crash", "notObject"}

\* handlers held by m_requestHandlers: the two built-in lambdas and a collaborator's
BuiltinSubscribe == "subscribeHandler"
BuiltinUnsubscribe == "unsubscribeHandler"
ExternalHandler == "echo"

\* the threads: the HTTP server's acceptor, which calls handleRequest, a collaborator's
\* thread, which calls the public methods, and the threads of the two executors
Threads == {"acceptor", "collaborator", "handler", "publisher"}

VARIABLES
    m_server,                   \* "null", "created", "started" or "stopped"
    m_localStorage,             \* TRUE once the storage interface is resolved
    m_requestHandlers,          \* path -> handler
    m_subscribeHandlers,        \* id -> subscribe hook
    m_publishRequestHandlers,   \* id -> request hook
    m_publishResponseHandlers,  \* id -> response hook
    m_subscriptions,            \* id -> sequence of Subscriber
    storage,                    \* the value under table aace.localSkillService, key subscriptions
    m_handlerExecutor,          \* FIFO queue of handler tasks
    m_publishExecutor,          \* FIFO queue of delivery tasks
    handlerThread,              \* the handler executor's thread: the task it runs and where it is
    publishThread,              \* the publish executor's thread: the delivery it runs
    crashed,                    \* the process was terminated (null dereference)
    m_subscriptionMutex,        \* the call that holds the mutex in the middle of its writes
    m_handlerMutex,             \* the thread that holds m_handlerMutex, or Null
    calls,                      \* thread -> the calls it is in, innermost last, and where
    obs                         \* what the last step returned, answered and wrote

vars ==
    << m_server, m_localStorage, m_requestHandlers, m_subscribeHandlers,
       m_publishRequestHandlers, m_publishResponseHandlers, m_subscriptions, storage,
       m_handlerExecutor, m_publishExecutor, handlerThread, publishThread, crashed,
       m_subscriptionMutex, m_handlerMutex, calls, obs >>

\* what the steps that follow the locking of the threads, call by call, add to the state
lockVars == << m_handlerMutex, calls >>

storeVars == << m_subscriptions, storage >>

hookVars == << m_subscribeHandlers, m_publishRequestHandlers, m_publishResponseHandlers >>

lifeVars == << m_server, m_localStorage, m_requestHandlers >>

(***************************************************************************)
(* Subscriber and Subscriptions.                                           *)
(***************************************************************************)
\* Subscriber::isEqual: component-wise on endpoint and path
isEqual(a, b) ==
    a.endpoint = b.endpoint /\ a.path = b.path

\* Subscriptions::getSubscribers: a copy of the list
getSubscribers(list) ==
    list

Contains(list, s) ==
    \E i \in 1..Len(list) : isEqual(list[i], s)

\* index of the first subscriber of list equal to s (0: none)
FirstEqual(list, s) ==
    IF Contains(list, s)
    THEN CHOOSE i \in 1..Len(list) :
            /\ isEqual(list[i], s)
            /\ \A j \in 1..(i - 1) : ~isEqual(list[j], s)
    ELSE 0

\* Subscriptions::add without its scan for an equal subscriber
SubscriptionsAddUnchecked(list, s) ==
    [ret |-> TRUE, list |-> Append(list, s)]

\* Subscriptions::add: push_back unless an equal subscriber is in the list
SubscriptionsAdd(list, s) ==
    IF Contains(list, s)
    THEN [ret |-> FALSE, list |-> list]
    ELSE [ret |-> TRUE, list |-> Append(list, s)]

\* Subscriptions::remove answering true whether or not a subscriber was erased
SubscriptionsRemoveAlwaysTrue(list, s) ==
    LET i == FirstEqual(list, s) IN
    [ret |-> TRUE,
     list |-> IF i = 0 THEN list
              ELSE SubSeq(list, 1, i - 1) \o SubSeq(list, i + 1, Len(list))]

\* Subscriptions::remove: erase the first equal subscriber
SubscriptionsRemove(list, s) ==
    LET i == FirstEqual(list, s) IN
    IF i = 0
    THEN [ret |-> FALSE, list |-> list]
    ELSE [ret |-> TRUE,
          list |-> SubSeq(list, 1, i - 1) \o SubSeq(list, i + 1, Len(list))]

(***************************************************************************)
(* Maps (std::map / std::unordered_map) as functions on their key set.     *)
(***************************************************************************)
EmptyMap == [k \in {} |-> Null]

Has(map, k) == k \in DOMAIN map

Put(map, k, v) == [x \in (DOMAIN map) \cup {k} |-> IF x = k THEN v ELSE map[x]]

\* the value a find-then-index gives, Null when the key is absent
Lookup(map, k) == IF k \in DOMAIN map THEN map[k] ELSE Null

(***************************************************************************)
(* m_subscriptionMutex.  The calls that lock it are single steps, taken    *)
(* while it is free; only registerPublishHandler is also taken in two      *)
(* steps, so that the other threads run while it is inside its section.    *)
(***************************************************************************)
Unlocked == [holder |-> Null, id |-> Null, hooks |-> << Null, Null, Null >>]

\* a collaborator's thread is inside registerPublishHandler(id, hooks), after line 140
Locked(id, hooks) == [holder |-> "collaborator", id |-> id, hooks |-> hooks]

(***************************************************************************)
(* The persisted value: a JSON text, kept as what rapidjson parses it to.  *)
(* kind "empty": no value stored; "garbage": text that does not parse;     *)
(* "array": an array of objects, a member that is absent or not a string   *)
(* being Missing.                                                          *)
(***************************************************************************)
\* the item of writeSubscriptions with the path written under both members
StoredEntryPathTwice(id, s) == [id |-> id, endpoint |-> s.path, path |-> s.path]

StoredEntry(id, s) == [id |-> id, endpoint |-> s.endpoint, path |-> s.path]

ArrayValue(items) == [kind |-> "array", items |-> items]

NoValue == [kind |-> "empty", items |-> << >>]

GarbageValue == [kind |-> "garbage", items |-> << >>]

\* text that parses as JSON but to no array (an object, a number, ...)
NonArrayValue == [kind |-> "nonarray", items |-> << >>]

\* what document.GetArray() may do: on an array it is defined; on any other value
\* rapidjson asserts, which ends the process, throws where the assertion is made to
\* throw, and is compiled out otherwise, the loop then finding nothing to read
GetArrayOutcomes(json) ==
    IF json.kind = "nonarray" THEN {"crash", "thrown", "nothingRead"} ELSE {"defined"}

\* the values the storage may hold before the broker is constructed: none, text that
\* does not parse, or an array of at most MaxStored of the given entries
InitialStorage(entries) ==
    { NoValue, GarbageValue }
    \cup { ArrayValue(items) :
             items \in UNION { [1..n -> entries] : n \in 0..MaxStored } }

\* the loop of readSubscriptions from entry i on: a missing member throws and ends the
\* load, the topic of an entry being created before its endpoint and path are looked at
RECURSIVE ReadEntries(_, _, _)
ReadEntries(items, i, subs) ==
    IF i > Len(items) THEN [ret |-> TRUE, subs |-> subs]
    ELSE LET e == items[i] IN
         IF e.id = Missing THEN [ret |-> FALSE, subs |-> subs]
         ELSE LET withTopic == IF Has(subs, e.id) THEN subs ELSE Put(subs, e.id, << >>) IN
              IF e.endpoint = Missing \/ e.path = Missing
              THEN [ret |-> FALSE, subs |-> withTopic]
              ELSE LET s == [endpoint |-> e.endpoint, path |-> e.path]
                       r == SubscriptionsAdd(withTopic[e.id], s)
                   IN ReadEntries(items, i + 1, Put(withTopic, e.id, r.list))

\* readSubscriptions on the stored value json, from the in-memory map subs
readSubscriptions(json, subs) ==
    IF json.kind # "array"
    THEN [ret |-> FALSE, subs |-> subs]
    ELSE ReadEntries(json.items, 1, subs)

\* the orders in which a loop over the map m_subscriptions may visit its keys
TopicOrders(subs) ==
    { o \in [1..Cardinality(DOMAIN subs) -> DOMAIN subs] :
        \A i, j \in DOMAIN o : i # j => o[i] # o[j] }

RECURSIVE WriteTopics(_, _, _)
WriteTopics(subs, order, i) ==
    IF i > Len(order) THEN << >>
    ELSE LET id == order[i]
             list == getSubscribers(subs[id])
         IN [k \in 1..Len(list) |-> StoredEntry(id, list[k])]
            \o WriteTopics(subs, order, i + 1)

\* writeSubscriptions with a loop that stops one subscriber early
writeSubscriptionsShort(subs, order) ==
    LET all == WriteTopics(subs, order, 1) IN
    ArrayValue(SubSeq(all, 1, Len(all) - 1))

\* the document writeSubscriptions builds: one object per subscriber of every topic
writeSubscriptions(subs, order) ==
    ArrayValue(WriteTopics(subs, order, 1))

\* addSubscription calling writeSubscriptions whether or not the subscriber was added
addSubscriptionRewriting(subs, id, s) ==
    IF ~Has(subs, id)
    THEN [ret |-> FALSE, write |-> FALSE, subs |-> subs]
    ELSE LET r == SubscriptionsAdd(subs[id], s) IN
         [ret |-> TRUE, write |-> TRUE, subs |-> Put(subs, id, r.list)]

\* addSubscription, up to its call of writeSubscriptions
addSubscription(subs, id, s) ==
    IF ~Has(subs, id)
    THEN [ret |-> FALSE, write |-> FALSE, subs |-> subs]
    ELSE LET r == SubscriptionsAdd(subs[id], s) IN
         [ret |-> TRUE, write |-> r.ret, subs |-> Put(subs, id, r.list)]

\* removeSubscription without the throw of subscriptionNotFound
removeSubscriptionLenient(subs, id, s) ==
    IF ~Has(subs, id)
    THEN [ret |-> TRUE, write |-> FALSE, subs |-> subs]
    ELSE LET r == SubscriptionsRemove(subs[id], s) IN
         [ret |-> TRUE, write |-> r.ret, subs |-> Put(subs, id, r.list)]

\* removeSubscription, up to its call of writeSubscriptions
removeSubscription(subs, id, s) ==
    IF ~Has(subs, id)
    THEN [ret |-> FALSE, write |-> FALSE, subs |-> subs]
    ELSE LET r == SubscriptionsRemove(subs[id], s) IN
         [ret |-> TRUE, write |-> r.ret, subs |-> Put(subs, id, r.list)]

\* m_localStorage->put of the document, which the storage may refuse (putOk)
Stored(old, r, order, putOk) ==
    IF r.write /\ putOk THEN writeSubscriptions(r.subs, order) ELSE old

\* what the put of a write answers, puts being the answers the storage may give, and
\* the orders the loop of writeSubscriptions may take
PutResults(r, puts) == IF r.write THEN puts ELSE {FALSE}

WriteOrders(r, putOk) == IF r.write /\ putOk THEN TopicOrders(r.subs) ELSE { << >> }

IdleHandlerThread == [pc |-> "idle"]

IdlePublishThread == [pc |-> "idle"]

\* the state after construction, over a storage that holds one of the given values
InitOver(values) ==
    /\ m_server = "null"
    /\ m_localStorage = FALSE
    /\ m_requestHandlers = EmptyMap
    /\ m_subscribeHandlers = EmptyMap
    /\ m_publishRequestHandlers = EmptyMap
    /\ m_publishResponseHandlers = EmptyMap
    /\ m_subscriptions = EmptyMap
    /\ m_subscriptionMutex = Unlocked
    /\ m_handlerMutex = Null
    /\ calls = [t \in Threads |-> << >>]
    /\ storage \in values
    /\ m_handlerExecutor = << >>
    /\ m_publishExecutor = << >>
    /\ handlerThread = IdleHandlerThread
    /\ publishThread = IdlePublishThread
    /\ crashed = FALSE
    /\ obs = [op |-> "init"]

(***************************************************************************)
(* Lifecycle.                                                              *)
(***************************************************************************)
\* where configure stops: "invalid" covers a stream that does not parse, is no object
\* or has no string lssSocketPath, and a second configure (m_server already created)
ConfigureOutcomes ==
    {"invalid", "createFailed", "registerServiceFailed", "noLocalStorage", "ok"}

configure(outcome) ==
    /\ ~crashed
    /\ UNCHANGED lockVars
    /\ UNCHANGED m_subscriptionMutex
    /\ outcome \in ConfigureOutcomes
    /\ IF m_server # "null" \/ outcome \in {"invalid", "createFailed"}
       THEN /\ UNCHANGED lifeVars
            /\ obs' = [op |-> "configure", ret |-> FALSE]
       ELSE /\ m_server' = "created"
            /\ m_requestHandlers' =
                   Put(Put(m_requestHandlers, SubscribePath, BuiltinSubscribe),
                       UnsubscribePath, BuiltinUnsubscribe)
            /\ m_localStorage' = (outcome = "ok")
            /\ obs' = [op |-> "configure", ret |-> (outcome = "ok")]
    /\ UNCHANGED << hookVars, storeVars, m_handlerExecutor, m_publishExecutor,
                    handlerThread, publishThread, crashed >>

\* start: readSubscriptions under m_subscriptionMutex, then m_server->start()
start ==
    /\ ~crashed
    /\ UNCHANGED lockVars
    /\ m_subscriptionMutex = Unlocked
    /\ UNCHANGED m_subscriptionMutex
    /\ IF m_server = "null"
       THEN /\ obs' = [op |-> "start", ret |-> FALSE, loaded |-> FALSE]
            /\ UNCHANGED << m_server, m_subscriptions, crashed >>
       ELSE IF ~m_localStorage
       THEN \* m_localStorage->get through a null pointer
            /\ crashed' = TRUE
            /\ obs' = [op |-> "start", ret |-> FALSE, loaded |-> FALSE]
            /\ UNCHANGED << m_server, m_subscriptions >>
       ELSE \E access \in GetArrayOutcomes(storage) :
            IF access = "crash"
            THEN /\ crashed' = TRUE
                 /\ obs' = [op |-> "start", ret |-> FALSE, loaded |-> FALSE]
                 /\ UNCHANGED << m_server, m_subscriptions >>
            ELSE LET r == readSubscriptions(storage, m_subscriptions) IN
                 /\ m_subscriptions' = r.subs
                 /\ m_server' = "started"
                 /\ obs' = [op |-> "start", ret |-> TRUE,
                            loaded |-> r.ret \/ access = "nothingRead"]
                 /\ UNCHANGED crashed
    /\ UNCHANGED << m_localStorage, m_requestHandlers, hookVars, storage,
                    m_handlerExecutor, m_publishExecutor, handlerThread, publishThread >>

stop ==
    /\ ~crashed
    /\ UNCHANGED lockVars
    /\ UNCHANGED m_subscriptionMutex
    /\ m_server' = IF m_server = "null" THEN m_server ELSE "stopped"
    /\ obs' = [op |-> "stop", ret |-> (m_server # "null")]
    /\ UNCHANGED << m_localStorage, m_requestHandlers, hookVars, storeVars,
                    m_handlerExecutor, m_publishExecutor, handlerThread, publishThread,
                    crashed >>

(***************************************************************************)
(* JSON documents.                                                         *)
(***************************************************************************)
\* a rapidjson document (pointer): "nullptr" is a null shared_ptr, "null" a document
\* that was never populated; an object holds the members id, endpoint, path (Missing:
\* absent or not a string)
Doc(type, id, endpoint, path) ==
    [type |-> type, id |-> id, endpoint |-> endpoint, path |-> path]

NullPointer == Doc("nullptr", Missing, Missing, Missing)

NullDocument == Doc("null", Missing, Missing, Missing)

ArrayDocument == Doc("array", Missing, Missing, Missing)

SubscriptionDoc(id, s) == Doc("object", id, s.endpoint, s.path)

\* the document a handler or a hook populates
ReplyDocument == Doc("object", "reply", Missing, Missing)

\* a document a collaborator passes to publishMessage
MessageDocument == Doc("object", "message", Missing, Missing)

\* the document the hook named hook populates
HookDocument(hook) == Doc("object", hook, Missing, Missing)

(***************************************************************************)
(* Registration and publishMessage, called by in-process collaborators.    *)
(***************************************************************************)
registerHandler(path, handler) ==
    /\ ~crashed
    /\ UNCHANGED lockVars
    /\ UNCHANGED m_subscriptionMutex
    /\ m_requestHandlers' = Put(m_requestHandlers, path, handler)
    /\ obs' = [op |-> "registerHandler", ret |-> TRUE]
    /\ UNCHANGED << m_server, m_localStorage, hookVars, storeVars, m_handlerExecutor,
                    m_publishExecutor, handlerThread, publishThread, crashed >>

\* a hook table filled with insert, which keeps the hook a slot already holds
SlotInserted(map, id, hook) ==
    IF hook # Null /\ ~Has(map, id) THEN Put(map, id, hook) ELSE map

\* lines 141-149: a non-null hook overwrites the slot of the id, a null one leaves it
Slot(map, id, hook) ==
    IF hook # Null THEN Put(map, id, hook) ELSE map

\* lines 141-153: the three slots are set as above; the topic is created if absent
Registered(id, subscribeHandler, requestHandler, responseHandler) ==
    /\ m_subscribeHandlers' = Slot(m_subscribeHandlers, id, subscribeHandler)
    /\ m_publishRequestHandlers' = Slot(m_publishRequestHandlers, id, requestHandler)
    /\ m_publishResponseHandlers' = Slot(m_publishResponseHandlers, id, responseHandler)
    /\ m_subscriptions' =
           IF Has(m_subscriptions, id) THEN m_subscriptions
           ELSE Put(m_subscriptions, id, << >>)
    /\ obs' = [op |-> "registerPublishHandler", ret |-> TRUE, id |-> id,
               hooks |-> << subscribeHandler, requestHandler, responseHandler >>]
    /\ UNCHANGED << lifeVars, storage, m_handlerExecutor, m_publishExecutor,
                    handlerThread, publishThread, crashed >>

\* registerPublishHandler as one step
registerPublishHandler(id, subscribeHandler, requestHandler, responseHandler) ==
    /\ ~crashed
    /\ UNCHANGED lockVars
    /\ m_subscriptionMutex = Unlocked
    /\ Registered(id, subscribeHandler, requestHandler, responseHandler)
    /\ UNCHANGED m_subscriptionMutex

\* registerPublishHandler in two steps: line 140, the mutex is taken
registerEnter(id, subscribeHandler, requestHandler, responseHandler) ==
    /\ ~crashed
    /\ UNCHANGED lockVars
    /\ m_subscriptionMutex = Unlocked
    /\ m_subscriptionMutex' =
           Locked(id, << subscribeHandler, requestHandler, responseHandler >>)
    /\ obs' = [op |-> "lock"]
    /\ UNCHANGED << lifeVars, hookVars, storeVars, m_handlerExecutor, m_publishExecutor,
                    handlerThread, publishThread, crashed >>

\* lines 141-153: the writes are done and the guard releases the mutex
registerLeave ==
    /\ ~crashed
    /\ UNCHANGED lockVars
    /\ m_subscriptionMutex # Unlocked
    /\ Registered(m_subscriptionMutex.id, m_subscriptionMutex.hooks[1],
                  m_subscriptionMutex.hooks[2], m_subscriptionMutex.hooks[3])
    /\ m_subscriptionMutex' = Unlocked

\* the task publishMessage and subscribeHandler submit: a call of
\* publishMessageToSubscriber with these arguments.  history is bookkeeping of the
\* model: "first" for a task not yet retried, "retry" for one submitted again after a
\* timeout, "resent" for one submitted again after an attempt that reached the subscriber.
Delivery(id, subscriber, message, requestHandler, responseHandler) ==
    [id |-> id, subscriber |-> subscriber, message |-> message,
     requestHandler |-> requestHandler, responseHandler |-> responseHandler,
     history |-> "first"]

\* publishMessage submitting deliveries that do not carry the response hook
PublishTasksUnhooked(id, message) ==
    LET subscribers == getSubscribers(m_subscriptions[id])
        requestHandler == Lookup(m_publishRequestHandlers, id)
    IN [k \in 1..Len(subscribers) |->
            Delivery(id, subscribers[k], message, requestHandler, Null)]

\* the tasks publishMessage submits: one per subscriber of the snapshot, in its order
PublishTasks(id, message) ==
    LET subscribers == getSubscribers(m_subscriptions[id])
        requestHandler == Lookup(m_publishRequestHandlers, id)
        responseHandler == Lookup(m_publishResponseHandlers, id)
    IN [k \in 1..Len(subscribers) |->
            Delivery(id, subscribers[k], message, requestHandler, responseHandler)]

\* deliveries the publish executor holds: queued, and the one its thread runs
PublishLoad ==
    Len(m_publishExecutor) + (IF publishThread.pc = "idle" THEN 0 ELSE 1)

publishMessage(id, message, cap) ==
    /\ ~crashed
    /\ UNCHANGED lockVars
    /\ m_subscriptionMutex = Unlocked
    /\ UNCHANGED m_subscriptionMutex
    /\ IF ~Has(m_subscriptions, id)
       THEN /\ UNCHANGED m_publishExecutor
            /\ obs' = [op |-> "publishMessage", ret |-> FALSE, id |-> id,
                       message |-> message]
       ELSE /\ PublishLoad + Len(m_subscriptions[id]) <= cap
            /\ m_publishExecutor' = m_publishExecutor \o PublishTasks(id, message)
            /\ obs' = [op |-> "publishMessage", ret |-> TRUE, id |-> id,
                       message |-> message]
    /\ UNCHANGED << lifeVars, hookVars, storeVars, m_handlerExecutor, handlerThread,
                    publishThread, crashed >>

(***************************************************************************)
(* Requests and the dispatcher.                                            *)
(***************************************************************************)
\* a request or response body: "" (empty), text that is not JSON, or JSON text
EmptyBody == [kind |-> "empty", doc |-> NullDocument]

GarbageBody == [kind |-> "garbage", doc |-> NullDocument]

\* rapidjson::Writer: the JSON text of a document
Serialize(doc) == [kind |-> "json", doc |-> doc]

Response(status, body) == [status |-> status, body |-> body]

\* lines 195-204: the body of a POST is parsed unless it is empty; any other method
\* leaves jsonRequest a null pointer
ParseRequest(method, body) ==
    IF method = "POST"
    THEN IF body.kind = "garbage"
         THEN [error |-> TRUE, jsonRequest |-> NullDocument]
         ELSE [error |-> FALSE, jsonRequest |-> body.doc]
    ELSE [error |-> FALSE, jsonRequest |-> NullPointer]

\* handleRequest looking the path up before it parses the body
DispatchPathFirst(method, path, body) ==
    LET p == ParseRequest(method, body) IN
    IF ~Has(m_requestHandlers, path)
    THEN [responses |-> << Response(404, EmptyBody) >>, tasks |-> << >>]
    ELSE IF p.error
    THEN [responses |-> << Response(400, EmptyBody) >>, tasks |-> << >>]
    ELSE [responses |-> << >>,
          tasks |-> << [handler |-> m_requestHandlers[path],
                        jsonRequest |-> p.jsonRequest, path |-> path] >>]

\* what handleRequest does with a request: the responses it sends itself and the
\* task it submits to m_handlerExecutor
Dispatch(method, path, body) ==
    LET p == ParseRequest(method, body) IN
    IF p.error
    THEN [responses |-> << Response(400, EmptyBody) >>, tasks |-> << >>]
    ELSE IF ~Has(m_requestHandlers, path)
    THEN [responses |-> << Response(404, EmptyBody) >>, tasks |-> << >>]
    ELSE [responses |-> << >>,
          tasks |-> << [handler |-> m_requestHandlers[path],
                        jsonRequest |-> p.jsonRequest, path |-> path] >>]

\* handler tasks the handler executor holds: queued, and the one its thread runs
HandlerLoad ==
    Len(m_handlerExecutor) + (IF handlerThread.pc = "idle" THEN 0 ELSE 1)

handleRequest(method, path, body, cap) ==
    /\ ~crashed
    /\ UNCHANGED lockVars
    /\ UNCHANGED m_subscriptionMutex
    /\ m_server = "started"
    /\ LET d == Dispatch(method, path, body) IN
       /\ HandlerLoad + Len(d.tasks) <= cap
       /\ m_handlerExecutor' = m_handlerExecutor \o d.tasks
       /\ obs' = [op |-> "handleRequest", ret |-> TRUE, method |-> method,
                  path |-> path, body |-> body.kind, responses |-> d.responses]
    /\ UNCHANGED << lifeVars, hookVars, storeVars, m_publishExecutor, handlerThread,
                    publishThread, crashed >>

\* the executor's task answering 500 from its catch block
TaskResponsesOnFault(r) ==
    IF r.fault THEN << Response(500, EmptyBody) >>
    ELSE IF r.ret
    THEN IF r.response.type = "object"
         THEN << Response(200, Serialize(r.response)) >>
         ELSE << Response(204, EmptyBody) >>
    ELSE << Response(500, EmptyBody) >>

\* lines 217-237: what the executor's task answers when the handler returned r.ret with
\* the response document r.response, or threw (r.fault)
TaskResponses(r) ==
    IF r.fault THEN << >>
    ELSE IF r.ret
    THEN IF r.response.type = "object"
         THEN << Response(200, Serialize(r.response)) >>
         ELSE << Response(204, EmptyBody) >>
    ELSE << Response(500, EmptyBody) >>

HandlerResult(ret, fault, response) ==
    [ret |-> ret, fault |-> fault, response |-> response]

\* what a collaborator's handler may do
ExternalResults ==
    { HandlerResult(TRUE, FALSE, ReplyDocument), HandlerResult(TRUE, FALSE, NullDocument),
      HandlerResult(FALSE, FALSE, NullDocument), HandlerResult(FALSE, TRUE, NullDocument) }

\* the handler executor runs a task whose handler a collaborator registered
runExternalHandler(r) ==
    /\ ~crashed
    /\ UNCHANGED lockVars
    /\ UNCHANGED m_subscriptionMutex
    /\ handlerThread.pc = "idle"
    /\ m_handlerExecutor # << >>
    /\ Head(m_handlerExecutor).handler = ExternalHandler
    /\ r \in ExternalResults
    /\ m_handlerExecutor' = Tail(m_handlerExecutor)
    /\ obs' = [op |-> "handlerTask", handler |-> ExternalHandler, ret |-> r.ret,
               fault |-> r.fault, response |-> r.response,
               responses |-> TaskResponses(r)]
    /\ UNCHANGED << lifeVars, hookVars, storeVars, m_publishExecutor, handlerThread,
                    publishThread, crashed >>

(***************************************************************************)
(* The built-in handlers, run by the handler executor's thread.            *)
(***************************************************************************)
\* lines 414-418 and 462-466: the request is an object with string id, endpoint, path
ValidPayload(request) ==
    /\ request.type = "object"
    /\ request.id # Missing
    /\ request.endpoint # Missing
    /\ request.path # Missing

SubscriberOf(request) == [endpoint |-> request.endpoint, path |-> request.path]

\* what the log line of the catch block names as the reason of a false return
PayloadFailure(request) ==
    IF request.type # "object" THEN "requestPayloadIsEmpty" ELSE "requestPayloadInvalid"

FinishedTask(handler, r, reason) ==
    [op |-> "handlerTask", handler |-> handler, ret |-> r.ret, fault |-> r.fault,
     response |-> r.response, responses |-> TaskResponses(r), reason |-> reason]

\* subscribeHandler without its lookup of the topic
TopicAssumed(id) == TRUE

\* line 420: the topic is looked up in m_subscriptions, m_subscriptionMutex not held
TopicKnown(id) == Has(m_subscriptions, id)

\* what the lookup of line 420 gives: it runs without the mutex, so while a
\* registerPublishHandler is inserting a topic into m_subscriptions it is a data race,
\* whose outcome is not defined
TopicRead(id) ==
    IF m_subscriptionMutex # Unlocked /\ ~Has(m_subscriptions, m_subscriptionMutex.id)
    THEN {"found", "notFound", "crash"}
    ELSE {IF TopicKnown(id) THEN "found" ELSE "notFound"}

\* subscribeHandler, lines 414-424: the payload is checked and the topic looked up in
\* m_subscriptions (without m_subscriptionMutex); request->IsObject() on the null
\* pointer of a request that is no POST ends the process
subscribeValidate ==
    /\ ~crashed
    /\ UNCHANGED lockVars
    /\ UNCHANGED m_subscriptionMutex
    /\ handlerThread.pc = "idle"
    /\ m_handlerExecutor # << >>
    /\ Head(m_handlerExecutor).handler = BuiltinSubscribe
    /\ m_handlerExecutor' = Tail(m_handlerExecutor)
    /\ LET request == Head(m_handlerExecutor).jsonRequest
           failed == HandlerResult(FALSE, FALSE, NullDocument)
       IN IF request.type = "nullptr"
          THEN \E deref \in NullDereference :
               /\ crashed' = (deref = "crash")
               /\ obs' = IF deref = "crash" THEN [op |-> "crash"]
                         ELSE FinishedTask(BuiltinSubscribe, failed, PayloadFailure(request))
               /\ UNCHANGED handlerThread
          ELSE IF ~ValidPayload(request)
          THEN /\ obs' = FinishedTask(BuiltinSubscribe, failed, PayloadFailure(request))
               /\ UNCHANGED << handlerThread, crashed >>
          ELSE \E read \in TopicRead(request.id) :
               IF read = "crash"
               THEN /\ crashed' = TRUE
                    /\ obs' = [op |-> "crash"]
                    /\ UNCHANGED handlerThread
               ELSE IF read = "notFound"
               THEN /\ obs' = FinishedTask(BuiltinSubscribe, failed, "subscriptionNotFound")
                    /\ UNCHANGED << handlerThread, crashed >>
               ELSE /\ handlerThread' =
                           [pc |-> "addSubscription", id |-> request.id,
                            subscriber |-> SubscriberOf(request), added |-> FALSE,
                            subscribeHandler |-> Null, requestHandler |-> Null,
                            responseHandler |-> Null]
                    /\ obs' = [op |-> "subscribeValidate"]
                    /\ UNCHANGED crashed
    /\ UNCHANGED << lifeVars, hookVars, storeVars, m_publishExecutor, publishThread >>

\* subscribeHandler, line 425: addSubscription under m_subscriptionMutex; added
\* (bookkeeping of the model) notes whether the subscriber was new to the list
subscribeAdd(puts) ==
    /\ ~crashed
    /\ UNCHANGED lockVars
    /\ m_subscriptionMutex = Unlocked
    /\ UNCHANGED m_subscriptionMutex
    /\ handlerThread.pc = "addSubscription"
    /\ LET r == addSubscription(m_subscriptions, handlerThread.id, handlerThread.subscriber)
       IN \E putOk \in PutResults(r, puts) : \E order \in WriteOrders(r, putOk) :
          /\ m_subscriptions' = r.subs
          /\ storage' = Stored(storage, r, order, putOk)
          /\ IF r.ret
             THEN /\ handlerThread' =
                         [handlerThread EXCEPT !.pc = "snapshot", !.added = r.write]
                  /\ obs' = [op |-> "addSubscription", ret |-> TRUE, write |-> r.write,
                             putOk |-> putOk]
             ELSE /\ handlerThread' = IdleHandlerThread
                  /\ obs' = FinishedTask(BuiltinSubscribe,
                                HandlerResult(FALSE, FALSE, NullDocument),
                                "addSubscriptionFailed")
    /\ UNCHANGED << lifeVars, hookVars, m_handlerExecutor, m_publishExecutor,
                    publishThread, crashed >>

\* subscribeHandler, lines 429-440: the three hooks of the id are copied under
\* m_subscriptionMutex
subscribeSnapshot ==
    /\ ~crashed
    /\ UNCHANGED lockVars
    /\ m_subscriptionMutex = Unlocked
    /\ UNCHANGED m_subscriptionMutex
    /\ handlerThread.pc = "snapshot"
    /\ handlerThread' =
           [handlerThread EXCEPT
               !.pc = "hooks",
               !.subscribeHandler = Lookup(m_subscribeHandlers, handlerThread.id),
               !.requestHandler = Lookup(m_publishRequestHandlers, handlerThread.id),
               !.responseHandler = Lookup(m_publishResponseHandlers, handlerThread.id)]
    /\ obs' = [op |-> "snapshot"]
    /\ UNCHANGED << lifeVars, hookVars, storeVars, m_handlerExecutor, m_publishExecutor,
                    publishThread, crashed >>

\* what a hook may do when it is called: populate the document with an object and
\* return true, return true without populating it or having made it an array, return
\* false, or throw
HookResults(hook) ==
    { HandlerResult(TRUE, FALSE, HookDocument(hook)), HandlerResult(TRUE, FALSE, NullDocument),
      HandlerResult(TRUE, FALSE, ArrayDocument),
      HandlerResult(FALSE, FALSE, NullDocument), HandlerResult(FALSE, TRUE, NullDocument) }

\* subscribeHandler submitting the priming delivery before it looks at what the
\* subscribe hook returned
SubscribeOutcomePrimesFirst(thread, h) ==
    LET called == thread.subscribeHandler # Null
        ok == ~called \/ (h.ret /\ ~h.fault)
        prime == thread.requestHandler # Null \/ thread.responseHandler # Null
    IN [result |-> HandlerResult(ok, FALSE, IF called THEN h.response ELSE NullDocument),
        reason |-> IF ok THEN "" ELSE "subscribeHandlerFailed",
        called |-> called,
        tasks |-> IF prime
                  THEN << Delivery(thread.id, thread.subscriber, NullPointer,
                                   thread.requestHandler, thread.responseHandler) >>
                  ELSE << >>]

\* subscribeHandler, lines 441-450, with the hook (if one is set) doing h: the handler's
\* result and the priming delivery it submits
SubscribeOutcome(thread, h) ==
    LET called == thread.subscribeHandler # Null
        ok == ~called \/ (h.ret /\ ~h.fault)
        prime == ok /\ (thread.requestHandler # Null \/ thread.responseHandler # Null)
    IN [result |-> HandlerResult(ok, FALSE, IF called THEN h.response ELSE NullDocument),
        reason |-> IF ok THEN "" ELSE "subscribeHandlerFailed",
        called |-> called,
        tasks |-> IF prime
                  THEN << Delivery(thread.id, thread.subscriber, NullPointer,
                                   thread.requestHandler, thread.responseHandler) >>
                  ELSE << >>]

subscribeFinish(cap) ==
    /\ ~crashed
    /\ UNCHANGED lockVars
    /\ UNCHANGED m_subscriptionMutex
    /\ handlerThread.pc = "hooks"
    /\ \E h \in IF handlerThread.subscribeHandler # Null
                THEN HookResults(handlerThread.subscribeHandler)
                ELSE { HandlerResult(TRUE, FALSE, NullDocument) } :
       LET o == SubscribeOutcome(handlerThread, h) IN
       /\ PublishLoad + Len(o.tasks) <= cap
       /\ m_publishExecutor' = m_publishExecutor \o o.tasks
       /\ obs' = [op |-> "handlerTask", handler |-> BuiltinSubscribe,
                  ret |-> o.result.ret, fault |-> FALSE, response |-> o.result.response,
                  responses |-> TaskResponses(o.result), reason |-> o.reason,
                  hookCalled |-> o.called, primed |-> Len(o.tasks)]
    /\ handlerThread' = IdleHandlerThread
    /\ UNCHANGED << lifeVars, hookVars, storeVars, m_handlerExecutor, publishThread,
                    crashed >>

\* unsubscribeHandler: the payload is checked, then removeSubscription runs under
\* m_subscriptionMutex and its false return fails the handler
unsubscribe(puts) ==
    /\ ~crashed
    /\ UNCHANGED lockVars
    /\ m_subscriptionMutex = Unlocked
    /\ UNCHANGED m_subscriptionMutex
    /\ handlerThread.pc = "idle"
    /\ m_handlerExecutor # << >>
    /\ Head(m_handlerExecutor).handler = BuiltinUnsubscribe
    /\ m_handlerExecutor' = Tail(m_handlerExecutor)
    /\ LET request == Head(m_handlerExecutor).jsonRequest
           failed == HandlerResult(FALSE, FALSE, NullDocument)
       IN IF request.type = "nullptr"
          THEN \E deref \in NullDereference :
               /\ crashed' = (deref = "crash")
               /\ obs' = IF deref = "crash" THEN [op |-> "crash"]
                         ELSE FinishedTask(BuiltinUnsubscribe, failed,
                                           PayloadFailure(request))
                              @@ [write |-> FALSE, putOk |-> FALSE]
               /\ UNCHANGED storeVars
          ELSE IF ~ValidPayload(request)
          THEN /\ obs' = FinishedTask(BuiltinUnsubscribe, failed, PayloadFailure(request))
                         @@ [write |-> FALSE, putOk |-> FALSE]
               /\ UNCHANGED << storeVars, crashed >>
          ELSE LET r == removeSubscription(m_subscriptions, request.id,
                                           SubscriberOf(request))
               IN \E putOk \in PutResults(r, puts) : \E order \in WriteOrders(r, putOk) :
                  /\ m_subscriptions' = r.subs
                  /\ storage' = Stored(storage, r, order, putOk)
                  /\ obs' = FinishedTask(BuiltinUnsubscribe,
                                HandlerResult(r.ret, FALSE, NullDocument),
                                IF r.ret THEN "" ELSE "removeSubscriptionFailed")
                            @@ [write |-> r.write, putOk |-> putOk]
                  /\ UNCHANGED crashed
    /\ UNCHANGED << lifeVars, hookVars, handlerThread, m_publishExecutor, publishThread >>

(***************************************************************************)
(* publishMessageToSubscriber, run by the publish executor's thread.       *)
(***************************************************************************)
\* the request hook is called when the caller gave no message and a hook is set
RequestHookCalled(task) ==
    task.message.type = "nullptr" /\ task.requestHandler # Null

\* lines 352-367: the document to send and whether the delivery is given up; h is what
\* the request hook does if it is called
RequestPayload(task, h) ==
    LET called == RequestHookCalled(task)
        request == IF task.message.type # "nullptr" THEN task.message
                   ELSE IF called THEN h.response ELSE NullPointer
    IN [abort |-> called /\ (h.fault \/ ~h.ret),
        body |-> IF request.type = "object" THEN Serialize(request) ELSE EmptyBody]

\* how curl_easy_perform and what follows it may end: the CURLcode, whether the request
\* reached the subscriber, whether curl_easy_getinfo succeeds, the response code it
\* gives (0: no response was received), and what becomes of a response body
\* ("empty", "unparsable", or the responseHook returning "hookTrue", "hookFalse")
Outcome(curl, received, getinfoOk, status, response) ==
    [curl |-> curl, received |-> received, getinfoOk |-> getinfoOk, status |-> status,
     response |-> response]

DeliveryOutcomes ==
    { Outcome("COULDNT_RESOLVE_HOST", FALSE, TRUE, 0, "empty"),
      Outcome("COULDNT_CONNECT", FALSE, TRUE, 0, "empty"),
      Outcome("OPERATION_TIMEDOUT", FALSE, TRUE, 0, "empty"),
      Outcome("OPERATION_TIMEDOUT", TRUE, TRUE, 0, "empty"),
      Outcome("RECV_ERROR", TRUE, TRUE, 0, "empty"),
      Outcome("OK", TRUE, FALSE, 0, "empty") }
    \cup { Outcome("OK", TRUE, TRUE, s, "empty") : s \in {199, 200, 299, 300, 404} }
    \cup { Outcome("OK", TRUE, TRUE, 200, r) : r \in {"unparsable", "hookFalse", "hookTrue"} }

\* the delivery was given up before curl_easy_perform
NotPerformed == Outcome("NOT_PERFORMED", FALSE, FALSE, 0, "empty")

\* the publish executor takes the next delivery; setoptOk: the curl_easy_setopt calls
\* before curl_easy_perform succeed
deliverBegin ==
    /\ ~crashed
    /\ UNCHANGED lockVars
    /\ UNCHANGED m_subscriptionMutex
    /\ publishThread.pc = "idle"
    /\ m_publishExecutor # << >>
    /\ m_publishExecutor' = Tail(m_publishExecutor)
    /\ LET task == Head(m_publishExecutor) IN
       \E setoptOk \in BOOLEAN :
       \E h \in IF setoptOk /\ RequestHookCalled(task)
                THEN HookResults(task.requestHandler)
                ELSE { HandlerResult(TRUE, FALSE, NullDocument) } :
          LET p == RequestPayload(task, h) IN
          IF ~setoptOk \/ p.abort
          THEN /\ publishThread' = IdlePublishThread
               /\ obs' = [op |-> "deliver", outcome |-> NotPerformed, ret |-> FALSE,
                          remove |-> FALSE, retry |-> FALSE, write |-> FALSE,
                          putOk |-> FALSE, again |-> FALSE, duplicate |-> FALSE,
                          task |-> task]
          ELSE /\ publishThread' = [pc |-> "perform", task |-> task, body |-> p.body]
               /\ obs' = [op |-> "perform", called |-> RequestHookCalled(task),
                          hook |-> h]
    /\ UNCHANGED << lifeVars, hookVars, storeVars, m_handlerExecutor, handlerThread,
                    crashed >>

\* publishMessageToSubscriber evicting on a status above 300 only
DeliveryVerdictAbove(task, o) ==
    IF o.curl \in {"COULDNT_RESOLVE_HOST", "COULDNT_CONNECT"}
    THEN [remove |-> TRUE, retry |-> FALSE, ret |-> FALSE]
    ELSE IF o.curl = "OPERATION_TIMEDOUT"
    THEN [remove |-> FALSE, retry |-> TRUE, ret |-> FALSE]
    ELSE IF ~o.getinfoOk
    THEN [remove |-> FALSE, retry |-> FALSE, ret |-> FALSE]
    ELSE IF o.status < 200 \/ o.status > 300
    THEN [remove |-> TRUE, retry |-> FALSE, ret |-> FALSE]
    ELSE IF o.response # "empty" /\ task.responseHandler # Null
    THEN [remove |-> FALSE, retry |-> FALSE, ret |-> (o.response = "hookTrue")]
    ELSE [remove |-> FALSE, retry |-> FALSE, ret |-> TRUE]

\* lines 376-407: what publishMessageToSubscriber does with an outcome
DeliveryVerdict(task, o) ==
    IF o.curl \in {"COULDNT_RESOLVE_HOST", "COULDNT_CONNECT"}
    THEN [remove |-> TRUE, retry |-> FALSE, ret |-> FALSE]
    ELSE IF o.curl = "OPERATION_TIMEDOUT"
    THEN [remove |-> FALSE, retry |-> TRUE, ret |-> FALSE]
    ELSE IF ~o.getinfoOk
    THEN [remove |-> FALSE, retry |-> FALSE, ret |-> FALSE]
    ELSE IF o.status < 200 \/ o.status >= 300
    THEN [remove |-> TRUE, retry |-> FALSE, ret |-> FALSE]
    ELSE IF o.response # "empty" /\ task.responseHandler # Null
    THEN [remove |-> FALSE, retry |-> FALSE, ret |-> (o.response = "hookTrue")]
    ELSE [remove |-> FALSE, retry |-> FALSE, ret |-> TRUE]

\* the retry lambda without the message among its captures
RetriedWithoutMessage(task, o) ==
    [task EXCEPT !.message = NullPointer,
                 !.history = IF o.received \/ @ = "resent" THEN "resent" ELSE "retry"]

\* lines 382-384: the task a timed-out delivery submits: the same call
Retried(task, o) ==
    [task EXCEPT !.history = IF o.received \/ @ = "resent" THEN "resent" ELSE "retry"]

\* publishMessageToSubscriber running the retry at once, ahead of the queued tasks
RetriedAtOnce(queue, task, o) == << Retried(task, o) >> \o queue

\* lines 381-387: the retry is a task submitted to m_publishExecutor, so it waits
\* behind the tasks the executor already holds
Resubmitted(queue, task, o) == Append(queue, Retried(task, o))

\* lines 403-405: the catch block calls removeSubscription when remove is set
Evicted(task, v) ==
    IF v.remove
    THEN removeSubscription(m_subscriptions, task.id, task.subscriber)
    ELSE [ret |-> TRUE, write |-> FALSE, subs |-> m_subscriptions]

\* curl_easy_perform returns and the delivery ends: eviction by removeSubscription
\* (under m_subscriptionMutex), a retry submitted to m_publishExecutor, or neither
deliverEnd(o, puts) ==
    /\ ~crashed
    /\ UNCHANGED lockVars
    /\ m_subscriptionMutex = Unlocked
    /\ UNCHANGED m_subscriptionMutex
    /\ publishThread.pc = "perform"
    /\ LET task == publishThread.task
           v == DeliveryVerdict(task, o)
           r == Evicted(task, v)
       IN \E putOk \in PutResults(r, puts) : \E order \in WriteOrders(r, putOk) :
          /\ m_subscriptions' = r.subs
          /\ storage' = Stored(storage, r, order, putOk)
          /\ m_publishExecutor' =
                 IF v.retry THEN Resubmitted(m_publishExecutor, task, o)
                 ELSE m_publishExecutor
          /\ obs' = [op |-> "deliver", outcome |-> o, ret |-> v.ret,
                     remove |-> v.remove, retry |-> v.retry,
                     write |-> r.write, putOk |-> putOk,
                     again |-> v.retry /\ task.history # "first",
                     duplicate |-> o.received /\ task.history = "resent"]
    /\ publishThread' = IdlePublishThread
    /\ UNCHANGED << lifeVars, hookVars, m_handlerExecutor, handlerThread, crashed >>

(***************************************************************************)
(* The environment's inputs and the specifications.                        *)
(***************************************************************************)
RequestOf(pairs) == { Serialize(SubscriptionDoc(p[1], p[2])) : p \in pairs }

EntriesOf(pairs) == { StoredEntry(p[1], p[2]) : p \in pairs }

\* how a delivery ends when it does not time out
Untimed == { o \in DeliveryOutcomes : o.curl # "OPERATION_TIMEDOUT" }

(***************************************************************************)
(* Spec: the whole broker - lifecycle, registration without hooks,         *)
(* publishMessage, /subscribe and /unsubscribe requests, deliveries that   *)
(* end with a connect failure or an HTTP status - over a storage whose     *)
(* puts succeed.                                                           *)
(***************************************************************************)
SpecPairs == { << "t", SubscriberA >>, << "t", SubscriberB >>, << "u", SubscriberA >> }

SpecOutcomes ==
    { Outcome("COULDNT_CONNECT", FALSE, TRUE, 0, "empty"),
      Outcome("OK", TRUE, TRUE, 200, "empty"), Outcome("OK", TRUE, TRUE, 404, "empty") }

Init == InitOver(InitialStorage(EntriesOf(SpecPairs)))

Broker(pairs, puts, outcomes) ==
    \/ \E outcome \in ConfigureOutcomes : configure(outcome)
    \/ start
    \/ \E id \in Ids : registerPublishHandler(id, Null, Null, Null)
    \/ \E id \in Ids : publishMessage(id, MessageDocument, MaxPublishQueue)
    \/ \E path \in {SubscribePath, UnsubscribePath}, body \in RequestOf(pairs) :
          handleRequest("POST", path, body, MaxHandlerQueue)
    \/ subscribeValidate
    \/ subscribeAdd(puts)
    \/ subscribeSnapshot
    \/ subscribeFinish(MaxPublishQueue)
    \/ unsubscribe(puts)
    \/ deliverBegin
    \/ \E o \in outcomes : deliverEnd(o, puts)

Next == Broker(SpecPairs, {TRUE}, SpecOutcomes)

Spec == Init /\ [][Next]_vars

(***************************************************************************)
(* SpecStore: the requests that change the store, /subscribe and           *)
(* /unsubscribe, without publishMessage and deliveries.                    *)
(***************************************************************************)
NextStore ==
    \/ configure("ok")
    \/ start
    \/ \E id \in Ids : registerPublishHandler(id, Null, Null, Null)
    \/ \E path \in {SubscribePath, UnsubscribePath}, body \in RequestOf(SpecPairs) :
          handleRequest("POST", path, body, MaxHandlerQueue)
    \/ subscribeValidate
    \/ subscribeAdd({TRUE})
    \/ subscribeSnapshot
    \/ subscribeFinish(MaxPublishQueue)
    \/ unsubscribe({TRUE})

SpecStore == Init /\ [][NextStore]_vars

(***************************************************************************)
(* SpecFaulty: the whole broker, with every way a delivery ends but a      *)
(* timeout, over a storage whose puts may fail.                            *)
(***************************************************************************)
FaultyPairs == { << "t", SubscriberA >>, << "u", SubscriberA >> }

InitFaulty == InitOver(InitialStorage(EntriesOf(FaultyPairs)))

NextFaulty == Broker(FaultyPairs, BOOLEAN, Untimed)

SpecFaulty == InitFaulty /\ [][NextFaulty]_vars

(***************************************************************************)
(* SpecDispatch: the dispatcher - requests of either method, for the       *)
(* built-in paths, a path a collaborator registers and one nobody does,    *)
(* with bodies that are empty, unparsable or JSON - and the handler tasks. *)
(***************************************************************************)
DispatchBodies ==
    { EmptyBody, GarbageBody, Serialize(ArrayDocument),
      Serialize(SubscriptionDoc("t", SubscriberA)),
      Serialize(SubscriptionDoc("u", SubscriberA)) }

InitDispatch == InitOver(InitialStorage({}))

NextDispatch ==
    \/ \E outcome \in ConfigureOutcomes : configure(outcome)
    \/ start
    \/ registerHandler(EchoPath, ExternalHandler)
    \/ registerPublishHandler("t", Null, Null, Null)
    \/ \E method \in Methods, path \in Paths, body \in DispatchBodies :
          handleRequest(method, path, body, MaxDispatchQueue)
    \/ \E r \in ExternalResults : runExternalHandler(r)
    \/ subscribeValidate
    \/ subscribeAdd({TRUE})
    \/ subscribeSnapshot
    \/ subscribeFinish(MaxPublishQueue)
    \/ unsubscribe({TRUE})

SpecDispatch == InitDispatch /\ [][NextDispatch]_vars

(***************************************************************************)
(* SpecPublish: publishMessage with and without a message, for a topic     *)
(* whose hooks are registered and replaced while deliveries run.           *)
(***************************************************************************)
PublishPairs == { << "t", SubscriberA >>, << "t", SubscriberB >> }

PublishHooks ==
    { << Null, Null, Null >>, << Null, "request1", "response1" >>,
      << Null, "request2", Null >> }

PublishOutcomes ==
    { Outcome("OK", TRUE, TRUE, 200, "hookTrue"), Outcome("OK", TRUE, TRUE, 404, "empty") }

InitPublish == InitOver(InitialStorage(EntriesOf(PublishPairs)))

NextPublish ==
    \/ configure("ok")
    \/ start
    \/ \E h \in PublishHooks : registerPublishHandler("t", h[1], h[2], h[3])
    \/ \E id \in Ids, message \in {NullPointer, MessageDocument} :
          publishMessage(id, message, MaxFanOut)
    \/ deliverBegin
    \/ \E o \in PublishOutcomes : deliverEnd(o, {TRUE})

SpecPublish == InitPublish /\ [][NextPublish]_vars

(***************************************************************************)
(* SpecRetry: deliveries that may time out, any number of times.           *)
(***************************************************************************)
RetryPairs == { << "t", SubscriberA >>, << "t", SubscriberB >> }

InitRetry == InitOver(InitialStorage(EntriesOf(RetryPairs)))

NextRetry ==
    \/ configure("ok")
    \/ start
    \/ registerPublishHandler("t", Null, Null, Null)
    \/ publishMessage("t", MessageDocument, MaxFanOut)
    \/ deliverBegin
    \/ \E o \in DeliveryOutcomes : deliverEnd(o, {TRUE})

SpecRetry == InitRetry /\ [][NextRetry]_vars

\* the publish executor's thread keeps running: it takes the next task when it is idle
\* and a task is queued, and curl_easy_perform returns (the transfer is bounded by
\* CURLOPT_TIMEOUT)
ExecutorFairness ==
    /\ WF_vars(deliverBegin)
    /\ WF_vars(\E o \in DeliveryOutcomes : deliverEnd(o, {TRUE}))

SpecRetryFair == SpecRetry /\ ExecutorFairness

(***************************************************************************)
(* SpecLoad: the lifecycle over any stored value - none, unparsable text,  *)
(* JSON that is no array, arrays with entries that lack a member.          *)
(***************************************************************************)
LoadPairs == { << "t", SubscriberA >>, << "u", SubscriberB >> }

\* entries without id, without endpoint and without path
MalformedEntries ==
    { [id |-> Missing, endpoint |-> "/tmp/a.sock", path |-> "/cb"],
      [id |-> "t", endpoint |-> Missing, path |-> "/cb"],
      [id |-> "u", endpoint |-> "/tmp/b.sock", path |-> Missing] }

InitLoad ==
    InitOver(InitialStorage(EntriesOf(LoadPairs) \cup MalformedEntries)
             \cup {NonArrayValue})

NextLoad ==
    \/ \E outcome \in ConfigureOutcomes : configure(outcome)
    \/ start
    \/ stop
    \/ \E id \in Ids : registerPublishHandler(id, Null, Null, Null)

SpecLoad == InitLoad /\ [][NextLoad]_vars

(***************************************************************************)
(* SpecSubscribe: /subscribe for a topic whose three hooks are registered  *)
(* and replaced while requests and their priming deliveries run.           *)
(***************************************************************************)
SubscribeHooks ==
    { << "subscribe1", "request1", Null >>, << Null, "request2", "response2" >> }

InitSubscribe == InitOver({NoValue})

NextSubscribe ==
    \/ configure("ok")
    \/ start
    \/ \E h \in SubscribeHooks : registerPublishHandler("t", h[1], h[2], h[3])
    \/ publishMessage("t", MessageDocument, MaxPublishQueue)
    \/ \E body \in RequestOf(PublishPairs) :
          handleRequest("POST", SubscribePath, body, MaxHandlerQueue)
    \/ subscribeValidate
    \/ subscribeAdd({TRUE})
    \/ subscribeSnapshot
    \/ subscribeFinish(MaxPublishQueue)
    \/ deliverBegin
    \/ deliverEnd(Outcome("OK", TRUE, TRUE, 200, "empty"), {TRUE})

SpecSubscribe == InitSubscribe /\ [][NextSubscribe]_vars

(***************************************************************************)
(* SpecRace: /subscribe requests handled while a collaborator's thread is  *)
(* inside registerPublishHandler.                                          *)
(***************************************************************************)
InitRace == InitOver(InitialStorage(EntriesOf(FaultyPairs)))

NextRace ==
    \/ configure("ok")
    \/ start
    \/ \E id \in Ids : registerEnter(id, Null, "request1", Null)
    \/ registerLeave
    \/ \E body \in RequestOf(FaultyPairs) :
          handleRequest("POST", SubscribePath, body, MaxHandlerQueue)
    \/ subscribeValidate
    \/ subscribeAdd({TRUE})
    \/ subscribeSnapshot
    \/ subscribeFinish(MaxPublishQueue)

SpecRace == InitRace /\ [][NextRace]_vars

(***************************************************************************)
(* The locking of the threads, call by call.  Each method is the sequence  *)
(* of its lock_guard scopes, of the calls it makes to other methods and of *)
(* the hooks and handlers it invokes; what the calls compute is left out.  *)
(* A branch not taken is a call skipped, a throw a jump to the catch.      *)
(***************************************************************************)
MaxCallbacks == 1

LockOf(mutex) == [do |-> "lock", arg |-> mutex]

UnlockOf(mutex) == [do |-> "unlock", arg |-> mutex]

CallOf(op) == [do |-> "call", arg |-> op]

\* a hook or a request handler of a collaborator: code that may call the public methods
Callable == [k \in 1..MaxCallbacks |-> [do |-> "callback", arg |-> "publicMethod"]]

PublicMethods == {"registerHandler", "registerPublishHandler", "publishMessage"}

\* subscribeHandler invoking the subscribe hook inside the scope of the lock_guard
\* that protects the snapshot of the hooks
CodeHookUnderLock(op) ==
    CASE op \in {"registerHandler", "handleRequest"} ->
             << LockOf("m_handlerMutex"), UnlockOf("m_handlerMutex") >>
      [] op \in {"registerPublishHandler", "publishMessage", "readSubscriptions"} ->
             << LockOf("m_subscriptionMutex"), UnlockOf("m_subscriptionMutex") >>
      [] op \in {"addSubscription", "removeSubscription"} ->
             << LockOf("m_subscriptionMutex"), CallOf("writeSubscriptions"),
                UnlockOf("m_subscriptionMutex") >>
      [] op = "writeSubscriptions" -> << >>
      [] op = "start" -> << CallOf("readSubscriptions") >>
      [] op = "subscribeHandler" ->
             << CallOf("addSubscription"), LockOf("m_subscriptionMutex"),
                CallOf("callable"), UnlockOf("m_subscriptionMutex") >>
      [] op = "unsubscribeHandler" -> << CallOf("removeSubscription") >>
      [] op = "publishMessageToSubscriber" ->
             << CallOf("callable"), CallOf("callable"), CallOf("removeSubscription") >>
      [] op = "callable" -> Callable

\* the lock_guard scopes and the calls of each method, in the order of its code:
\* registerHandler 131, handleRequest 189, registerPublishHandler 140, publishMessage
\* 163, readSubscriptions 247, addSubscription 302-307, removeSubscription 322-327,
\* writeSubscriptions (no lock), start 119, subscribeHandler 425-442,
\* unsubscribeHandler 471, publishMessageToSubscriber 357, 397 and 404
Code(op) ==
    CASE op \in {"registerHandler", "handleRequest"} ->
             << LockOf("m_handlerMutex"), UnlockOf("m_handlerMutex") >>
      [] op \in {"registerPublishHandler", "publishMessage", "readSubscriptions"} ->
             << LockOf("m_subscriptionMutex"), UnlockOf("m_subscriptionMutex") >>
      [] op \in {"addSubscription", "removeSubscription"} ->
             << LockOf("m_subscriptionMutex"), CallOf("writeSubscriptions"),
                UnlockOf("m_subscriptionMutex") >>
      [] op = "writeSubscriptions" -> << >>
      [] op = "start" -> << CallOf("readSubscriptions") >>
      [] op = "subscribeHandler" ->
             << CallOf("addSubscription"), LockOf("m_subscriptionMutex"),
                UnlockOf("m_subscriptionMutex"), CallOf("callable") >>
      [] op = "unsubscribeHandler" -> << CallOf("removeSubscription") >>
      [] op = "publishMessageToSubscriber" ->
             << CallOf("callable"), CallOf("callable"), CallOf("removeSubscription") >>
      [] op = "callable" -> Callable

\* where a throw inside the method continues: at its catch block, which only
\* publishMessageToSubscriber follows with a call (removeSubscription, line 404)
Catch(op) ==
    IF op = "publishMessageToSubscriber" THEN 3 ELSE Len(Code(op)) + 1

\* what each thread runs: the acceptor handleRequest, a collaborator the public
\* methods and start, the handler executor the handlers (the two built-in ones or a
\* collaborator's), the publish executor publishMessageToSubscriber
Entry(t) ==
    CASE t = "acceptor" -> {"handleRequest"}
      [] t = "collaborator" -> PublicMethods \cup {"start"}
      [] t = "handler" -> {"subscribeHandler", "unsubscribeHandler", "callable"}
      [] t = "publisher" -> {"publishMessageToSubscriber"}

Frame(op, pc) == [op |-> op, pc |-> pc]

Top(t) == calls[t][Len(calls[t])]

\* the instruction the innermost call of a thread is at, none when it is at its end
AtEnd(t) == Top(t).pc > Len(Code(Top(t).op))

Instruction(t) == Code(Top(t).op)[Top(t).pc]

At(t, do) == calls[t] # << >> /\ ~AtEnd(t) /\ Instruction(t).do = do

Holder(mutex) ==
    IF mutex = "m_handlerMutex" THEN m_handlerMutex ELSE m_subscriptionMutex.holder

Holds(t) == { mutex \in {"m_handlerMutex", "m_subscriptionMutex"} : Holder(mutex) = t }

\* the mutexes after thread t has taken or given back the mutex: owner is t or Null
Mutexes(mutex, owner) ==
    /\ m_handlerMutex' = IF mutex = "m_handlerMutex" THEN owner ELSE m_handlerMutex
    /\ m_subscriptionMutex' =
           IF mutex = "m_subscriptionMutex"
           THEN [Unlocked EXCEPT !.holder = owner] ELSE m_subscriptionMutex

\* the innermost call of t moves to pc, and the calls in pushed are entered
Moved(t, pc, pushed) ==
    calls' = [calls EXCEPT ![t] =
                 SubSeq(@, 1, Len(@) - 1) \o << Frame(Top(t).op, pc) >> \o pushed]

dataVars ==
    << lifeVars, hookVars, storeVars, m_handlerExecutor, m_publishExecutor,
       handlerThread, publishThread, crashed, obs >>

\* a thread that is in no call enters one of the calls it runs
enter(t, op) ==
    /\ calls[t] = << >>
    /\ op \in Entry(t)
    /\ calls' = [calls EXCEPT ![t] = << Frame(op, 1) >>]
    /\ UNCHANGED << dataVars, m_handlerMutex, m_subscriptionMutex >>

\* std::lock_guard's constructor: the thread goes on when the mutex is free; a
\* std::mutex its own thread holds is never free for it
lock(t) ==
    /\ At(t, "lock")
    /\ Holder(Instruction(t).arg) = Null
    /\ Mutexes(Instruction(t).arg, t)
    /\ Moved(t, Top(t).pc + 1, << >>)
    /\ UNCHANGED dataVars

\* the end of the lock_guard's scope
unlock(t) ==
    /\ At(t, "unlock")
    /\ Mutexes(Instruction(t).arg, Null)
    /\ Moved(t, Top(t).pc + 1, << >>)
    /\ UNCHANGED dataVars

\* a call of another method, or the invocation of a hook or handler
call(t) ==
    /\ At(t, "call")
    /\ Moved(t, Top(t).pc + 1, << Frame(Instruction(t).arg, 1) >>)
    /\ UNCHANGED << dataVars, m_handlerMutex, m_subscriptionMutex >>

\* a hook or handler calls a public method
callback(t, op) ==
    /\ At(t, "callback")
    /\ op \in PublicMethods
    /\ Moved(t, Top(t).pc + 1, << Frame(op, 1) >>)
    /\ UNCHANGED << dataVars, m_handlerMutex, m_subscriptionMutex >>

\* the branch of a call is not taken: the hook is not set, nothing was added or
\* removed, remove is false, the hook or handler calls nothing
skip(t) ==
    /\ At(t, "call") \/ At(t, "callback")
    /\ Moved(t, Top(t).pc + 1, << >>)
    /\ UNCHANGED << dataVars, m_handlerMutex, m_subscriptionMutex >>

\* a throw inside the scope of a lock_guard, or outside any: control continues at
\* the catch and the guard's destructor gives the mutex back
raise(t) ==
    /\ calls[t] # << >>
    /\ Top(t).pc < Catch(Top(t).op)
    /\ Instruction(t).do # "lock"
    /\ LET later == { Code(Top(t).op)[k] : k \in Top(t).pc..Len(Code(Top(t).op)) }
           scope == { i.arg : i \in { x \in later : x.do = "unlock" } }
                    \ { i.arg : i \in { x \in later : x.do = "lock" } }
       IN /\ m_handlerMutex' =
                 IF "m_handlerMutex" \in scope THEN Null ELSE m_handlerMutex
          /\ m_subscriptionMutex' =
                 IF "m_subscriptionMutex" \in scope THEN Unlocked ELSE m_subscriptionMutex
    /\ Moved(t, Catch(Top(t).op), << >>)
    /\ UNCHANGED dataVars

\* the call returns to its caller
return(t) ==
    /\ calls[t] # << >>
    /\ AtEnd(t)
    /\ calls' = [calls EXCEPT ![t] = SubSeq(@, 1, Len(@) - 1)]
    /\ UNCHANGED << dataVars, m_handlerMutex, m_subscriptionMutex >>

\* a thread that is in a call takes its next step
Runs(t) ==
    \/ lock(t)
    \/ unlock(t)
    \/ call(t)
    \/ \E op \in PublicMethods : callback(t, op)
    \/ skip(t)
    \/ raise(t)
    \/ return(t)

(***************************************************************************)
(* SpecLocks: the four threads, each in any of the calls it runs, with     *)
(* hooks and handlers that call back into the public methods.              *)
(***************************************************************************)
InitLocks == InitOver({NoValue})

NextLocks ==
    \E t \in Threads :
        \/ \E op \in Entry(t) : enter(t, op)
        \/ Runs(t)

SpecLocks == InitLocks /\ [][NextLocks]_vars

(***************************************************************************)
(* Properties.                                                             *)
(***************************************************************************)
\* the subscribers of a list, as a set
Members(list) == { list[k] : k \in 1..Len(list) }

\* the (id, endpoint, path) triples of the subscribers held in memory
MemoryTriples ==
    UNION { { StoredEntry(id, s) : s \in Members(m_subscriptions[id]) } :
            id \in DOMAIN m_subscriptions }

\* the number of subscribers held in memory
MemoryCount ==
    Cardinality(UNION { { << id, k >> : k \in 1..Len(m_subscriptions[id]) } :
                        id \in DOMAIN m_subscriptions })

\* the persisted array holds the triples of memory, each once, and nothing else
PersistedExactly ==
    /\ storage.kind = "array"
    /\ Members(storage.items) = MemoryTriples
    /\ Len(storage.items) = MemoryCount

\* the step wrote the store and the put succeeded
Wrote == "write" \in DOMAIN obs /\ obs.write /\ obs.putOk

\* the handler executor's thread takes a task of the given built-in handler
Takes(handler) ==
    /\ handlerThread.pc = "idle"
    /\ m_handlerExecutor # << >>
    /\ Head(m_handlerExecutor).handler = handler
    /\ m_handlerExecutor' = Tail(m_handlerExecutor)
    /\ ValidPayload(Head(m_handlerExecutor).jsonRequest)

Request == Head(m_handlerExecutor).jsonRequest

\* C1: in every reachable state no topic's subscriber list holds two subscribers
\* with the same endpoint and path
NoDuplicateSubscribers ==
    \A id \in DOMAIN m_subscriptions :
        \A i, j \in 1..Len(m_subscriptions[id]) :
            (/\ m_subscriptions[id][i].endpoint = m_subscriptions[id][j].endpoint
             /\ m_subscriptions[id][i].path = m_subscriptions[id][j].path) => i = j

\* C1 happens: start has loaded a persisted array that holds an entry twice
DuplicateEntriesLoaded ==
    /\ obs.op = "start"
    /\ obs.loaded
    /\ \E i, j \in 1..Len(storage.items) : i < j /\ storage.items[i] = storage.items[j]

\* C2: right after an add, a remove or an eviction that changed a list and whose put
\* succeeded, the persisted array holds exactly the triples of the subscribers in memory
PersistedAfterChange ==
    Wrote => PersistedExactly

\* C2 happens: an eviction was written while another subscriber stays in memory
EvictionWritten ==
    /\ obs.op = "deliver"
    /\ Wrote
    /\ storage.items # << >>

\* C3: /subscribe with a well-formed body for an id that is no topic fails (500) and
\* changes nothing: no topic, no subscriber, no write, no hook run, no priming delivery
SubscribeUnknownTopicFails ==
    [][ (Takes(BuiltinSubscribe) /\ Request.id \notin DOMAIN m_subscriptions) =>
            /\ obs'.op = "handlerTask"
            /\ ~obs'.ret
            /\ obs'.responses = << Response(500, EmptyBody) >>
            /\ handlerThread' = IdleHandlerThread
            /\ UNCHANGED << m_subscriptions, storage, m_publishExecutor >> ]_vars

\* C3 happens: a /subscribe task ended with subscriptionNotFound
SubscribeUnknownTopicSeen ==
    /\ obs.op = "handlerTask"
    /\ obs.handler = BuiltinSubscribe
    /\ obs.reason = "subscriptionNotFound"

\* C4 as stated: /unsubscribe with a well-formed body for an id that is no topic
\* succeeds and leaves the store unchanged
UnsubscribeUnknownTopicSucceeds ==
    [][ (Takes(BuiltinUnsubscribe) /\ Request.id \notin DOMAIN m_subscriptions) =>
            /\ obs'.ret
            /\ UNCHANGED << m_subscriptions, storage >> ]_vars

\* C4 as amended: /unsubscribe with a well-formed body for an id that is no topic
\* fails (the handler returns false, answered 500); the store is unchanged and
\* nothing is written
UnsubscribeUnknownTopicFails ==
    [][ (Takes(BuiltinUnsubscribe) /\ Request.id \notin DOMAIN m_subscriptions) =>
            /\ obs'.op = "handlerTask"
            /\ ~obs'.ret
            /\ obs'.responses = << Response(500, EmptyBody) >>
            /\ ~obs'.write
            /\ UNCHANGED << m_subscriptions, storage >> ]_vars

\* C4 happens: an /unsubscribe task ended because removeSubscription returned false
UnsubscribeUnknownTopicSeen ==
    /\ obs.op = "handlerTask"
    /\ obs.handler = BuiltinUnsubscribe
    /\ obs.reason = "removeSubscriptionFailed"

\* C5: /unsubscribe for an existing topic naming a subscriber that is not in its list
\* returns true, leaves every list unchanged and writes nothing
UnsubscribeAbsentSubscriber ==
    [][ (/\ Takes(BuiltinUnsubscribe)
         /\ Request.id \in DOMAIN m_subscriptions
         /\ SubscriberOf(Request) \notin Members(m_subscriptions[Request.id])) =>
            /\ obs'.op = "handlerTask"
            /\ obs'.ret
            /\ ~obs'.write
            /\ UNCHANGED << m_subscriptions, storage >> ]_vars

\* C5 happens: an /unsubscribe task returned true without a write while the store
\* holds a subscriber
UnsubscribeAbsentSeen ==
    /\ obs.op = "handlerTask"
    /\ obs.handler = BuiltinUnsubscribe
    /\ obs.ret
    /\ ~obs.write
    /\ MemoryCount > 0

\* the queue q grew by exactly the tasks added, at its end
Appended(q, added) ==
    /\ Len(added) >= Len(q)
    /\ SubSeq(added, 1, Len(q)) = q

\* the handler executor's thread is free to take the next task
HandlerRuns ==
    \/ subscribeValidate
    \/ unsubscribe({TRUE})
    \/ \E r \in ExternalResults : runExternalHandler(r)

\* C6: handleRequest answers a POST whose non-empty body does not parse with 400,
\* whatever the path, and any other request for a path without handler with 404,
\* submitting nothing and running no handler; only a request that parses and whose
\* path has a handler is submitted, as one task of that handler, and is not answered
DispatcherSubmitsOnlyKnownParsed ==
    [][ obs'.op = "handleRequest" =>
            LET unparsable == obs'.method = "POST" /\ obs'.body = "garbage"
                known == obs'.path \in DOMAIN m_requestHandlers
            IN /\ handlerThread' = handlerThread
               /\ unparsable =>
                     /\ obs'.responses = << Response(400, EmptyBody) >>
                     /\ m_handlerExecutor' = m_handlerExecutor
               /\ (~unparsable /\ ~known) =>
                     /\ obs'.responses = << Response(404, EmptyBody) >>
                     /\ m_handlerExecutor' = m_handlerExecutor
               /\ (~unparsable /\ known) =>
                     /\ obs'.responses = << >>
                     /\ Appended(m_handlerExecutor, m_handlerExecutor')
                     /\ Len(m_handlerExecutor') = Len(m_handlerExecutor) + 1
                     /\ m_handlerExecutor'[Len(m_handlerExecutor')].handler
                            = m_requestHandlers[obs'.path] ]_vars

\* C6 happens: a POST with an unparsable body for a path nobody registered was
\* answered 400 while a task waits in the handler executor
UnparsableUnknownPathSeen ==
    /\ obs.op = "handleRequest"
    /\ obs.method = "POST"
    /\ obs.body = "garbage"
    /\ obs.path = PingPath
    /\ obs.responses = << Response(400, EmptyBody) >>
    /\ m_handlerExecutor # << >>

\* C7: a handler task answers at most once: 200 with the serialized document when the
\* handler returned true and populated an object, 204 with an empty body when it
\* returned true without one, 500 when it returned false, and nothing when it threw,
\* after which the executor's thread is free and takes the task queued behind
TaskAnswersByOutcome ==
    obs.op = "handlerTask" =>
        /\ Len(obs.responses) <= 1
        /\ (~obs.fault /\ obs.ret /\ obs.response.type = "object") =>
               obs.responses = << [status |-> 200,
                                   body |-> [kind |-> "json", doc |-> obs.response]] >>
        /\ (~obs.fault /\ obs.ret /\ obs.response.type # "object") =>
               obs.responses = << [status |-> 204, body |-> EmptyBody] >>
        /\ (~obs.fault /\ ~obs.ret) =>
               obs.responses = << [status |-> 500, body |-> EmptyBody] >>
        /\ obs.fault =>
               /\ obs.responses = << >>
               /\ ~crashed
               /\ handlerThread.pc = "idle"
               /\ m_handlerExecutor # << >> => ENABLED HandlerRuns

\* C7 happens: a handler threw while another task waits behind it
FaultWithTaskBehind ==
    /\ obs.op = "handlerTask"
    /\ obs.fault
    /\ m_handlerExecutor # << >>

\* C8: publishMessage for an id that is no topic returns false and submits nothing;
\* for a topic it returns true, waits for no delivery, and appends one task per
\* subscriber of the list as it is at that instant, in its order, each with the id,
\* the message and the hooks registered at that instant
PublishSubmitsSnapshot ==
    [][ obs'.op = "publishMessage" =>
            /\ publishThread' = publishThread
            /\ UNCHANGED << m_subscriptions, storage >>
            /\ IF obs'.id \notin DOMAIN m_subscriptions
               THEN ~obs'.ret /\ m_publishExecutor' = m_publishExecutor
               ELSE LET list == m_subscriptions[obs'.id]
                        n == Len(m_publishExecutor)
                    IN /\ obs'.ret
                       /\ Appended(m_publishExecutor, m_publishExecutor')
                       /\ Len(m_publishExecutor') = n + Len(list)
                       /\ \A k \in 1..Len(list) :
                             LET task == m_publishExecutor'[n + k] IN
                             /\ task.id = obs'.id
                             /\ task.subscriber = list[k]
                             /\ task.message = obs'.message
                             /\ task.requestHandler =
                                    IF obs'.id \in DOMAIN m_publishRequestHandlers
                                    THEN m_publishRequestHandlers[obs'.id] ELSE Null
                             /\ task.responseHandler =
                                    IF obs'.id \in DOMAIN m_publishResponseHandlers
                                    THEN m_publishResponseHandlers[obs'.id] ELSE Null ]_vars

\* C8 happens: a publish without message for a topic of two subscribers with hooks
\* left two deliveries in the publish executor
FanOutSeen ==
    /\ obs.op = "publishMessage"
    /\ obs.ret
    /\ obs.message = NullPointer
    /\ Len(m_publishExecutor) = 2
    /\ m_publishExecutor[1].subscriber # m_publishExecutor[2].subscriber
    /\ m_publishExecutor[2].responseHandler # Null

\* a delivery ended with a name or connect failure, or with a status outside [200, 300)
Terminal(o) ==
    \/ o.curl \in {"COULDNT_RESOLVE_HOST", "COULDNT_CONNECT"}
    \/ o.curl = "OK" /\ o.getinfoOk /\ (o.status < 200 \/ o.status >= 300)

\* the delivery the publish executor's thread runs ends in this step
Ends ==
    publishThread.pc = "perform" /\ obs'.op = "deliver"

\* what holds of an eviction whether or not it is persisted: the subscriber leaves its
\* topic and no other list changes; publishMessage submits deliveries for the
\* subscribers of the list only; a subscriber enters a list by /subscribe or load only
EvictionInMemory ==
    /\ (Ends /\ Terminal(obs'.outcome)) =>
           LET id == publishThread.task.id
               s == publishThread.task.subscriber
           IN /\ DOMAIN m_subscriptions' = DOMAIN m_subscriptions
              /\ m_subscriptions'[id] = SelectSeq(m_subscriptions[id], LAMBDA x : x # s)
              /\ \A other \in DOMAIN m_subscriptions \ {id} :
                    m_subscriptions'[other] = m_subscriptions[other]
    /\ obs'.op = "publishMessage" =>
           \A k \in (Len(m_publishExecutor) + 1)..Len(m_publishExecutor') :
              m_publishExecutor'[k].subscriber
                  \in Members(m_subscriptions[m_publishExecutor'[k].id])
    /\ \A id \in DOMAIN m_subscriptions' :
          \A s \in Members(m_subscriptions'[id]) :
             (id \in DOMAIN m_subscriptions => s \notin Members(m_subscriptions[id]))
                 => obs'.op \in {"addSubscription", "start"}

\* C9 as stated: a delivery that ends with a name or connect failure or a status
\* outside [200, 300) removes the subscriber from its topic and the persisted array
\* no longer holds it; what is said of memory holds too
EvictionPersisted ==
    [][ /\ EvictionInMemory
        /\ (Ends /\ Terminal(obs'.outcome)) =>
               /\ storage'.kind = "array"
               /\ StoredEntry(publishThread.task.id, publishThread.task.subscriber)
                      \notin Members(storage'.items) ]_vars

\* C9 as amended: the removal is persisted when it changed the list and the put of
\* the rewritten array succeeds; otherwise the storage keeps what it held
EvictionPersistedIfPut ==
    [][ /\ EvictionInMemory
        /\ (Ends /\ Terminal(obs'.outcome)) =>
               IF obs'.write /\ obs'.putOk
               THEN /\ PersistedExactly'
                    /\ StoredEntry(publishThread.task.id, publishThread.task.subscriber)
                           \notin Members(storage'.items)
               ELSE storage' = storage ]_vars

\* C9 happens: a subscriber was evicted, the write was put, and another topic keeps
\* its subscriber
EvictionSeen ==
    /\ obs.op = "deliver"
    /\ Terminal(obs.outcome)
    /\ obs.write
    /\ obs.putOk
    /\ MemoryCount > 0

OnlyTerminalOutcomesEvict ==
    [][ (obs'.op = "deliver" /\ ~Terminal(obs'.outcome)) =>
            UNCHANGED << m_subscriptions, storage >> ]_vars

\* the (id, endpoint, path) triples a topic table holds, and how many it holds
TriplesOf(subs) ==
    UNION { { << id, s.endpoint, s.path >> : s \in Members(subs[id]) } : id \in DOMAIN subs }

CountOf(subs) ==
    Cardinality(UNION { { << id, k >> : k \in 1..Len(subs[id]) } : id \in DOMAIN subs })

\* C12: writing the topics of any reachable state with writeSubscriptions, in any order
\* of the topics, and reading the value with readSubscriptions into a fresh broker
\* gives the same triples, as many, with every topic's subscribers in the same order;
\* reading the value a second time changes nothing
WriteReadRoundTrip ==
    \A order \in TopicOrders(m_subscriptions) :
        LET json == writeSubscriptions(m_subscriptions, order)
            once == readSubscriptions(json, EmptyMap)
            twice == readSubscriptions(json, once.subs)
        IN /\ once.ret
           /\ TriplesOf(once.subs) = TriplesOf(m_subscriptions)
           /\ CountOf(once.subs) = CountOf(m_subscriptions)
           /\ \A id \in DOMAIN once.subs :
                 id \in DOMAIN m_subscriptions /\ once.subs[id] = m_subscriptions[id]
           /\ twice.ret
           /\ twice.subs = once.subs

\* C12 happens: memory holds two topics, one of them with two subscribers in the
\* order in which they subscribed, the other first
TwoTopicsThreeSubscribers ==
    /\ DOMAIN m_subscriptions = {"t", "u"}
    /\ m_subscriptions["t"] = << SubscriberB, SubscriberA >>
    /\ m_subscriptions["u"] = << SubscriberA >>
    /\ Wrote

\* the broker was configured successfully and start is called
StartsConfigured ==
    obs'.op = "start" /\ m_server # "null" /\ m_localStorage

\* a load that skips the entries lacking a member and loads all the others
RECURSIVE SkippingLoad(_, _, _)
SkippingLoad(items, i, subs) ==
    IF i > Len(items) THEN subs
    ELSE LET e == items[i] IN
         IF Missing \in {e.id, e.endpoint, e.path}
         THEN SkippingLoad(items, i + 1, subs)
         ELSE LET s == [endpoint |-> e.endpoint, path |-> e.path]
                  list == IF e.id \in DOMAIN subs THEN subs[e.id] ELSE << >>
                  new == IF s \in Members(list) THEN list ELSE Append(list, s)
              IN SkippingLoad(items, i + 1,
                     [x \in DOMAIN subs \cup {e.id} |-> IF x = e.id THEN new ELSE subs[x]])

\* C13: the load of an array skips every entry that lacks id, endpoint or path - no
\* subscriber, no topic for it - and loads every well-formed entry before and after it
MalformedEntriesSkipped ==
    [][ (StartsConfigured /\ storage.kind = "array") =>
            m_subscriptions' = SkippingLoad(storage.items, 1, m_subscriptions) ]_vars

\* C14: after a successful configure start returns true and starts the server when
\* the stored value is absent, empty, unparsable or JSON that is no array, and the
\* store is left as it was
LoadFailureStillStarts ==
    [][ (StartsConfigured /\ storage.kind # "array") =>
            /\ obs'.ret
            /\ ~crashed'
            /\ m_server' = "started"
            /\ m_subscriptions' = m_subscriptions ]_vars

\* C15: the load creates a topic for every id the persisted array names, registered
\* or not, and registerPublishHandler leaves the list of every existing topic as it is
LoadCreatesTopicsRegisterKeeps ==
    [][ /\ (StartsConfigured /\ storage.kind = "array") =>
               \A i \in 1..Len(storage.items) :
                  storage.items[i].id # Missing =>
                      storage.items[i].id \in DOMAIN m_subscriptions'
        /\ obs'.op = "registerPublishHandler" =>
               \A id \in DOMAIN m_subscriptions :
                  id \in DOMAIN m_subscriptions' /\ m_subscriptions'[id] = m_subscriptions[id]
      ]_vars

\* C19: when no configure has succeeded - none was called, or it failed at any step -
\* start returns false, loads nothing and does not start the server
StartAfterFailedConfigure ==
    [][ (obs'.op = "start" /\ ~m_localStorage) =>
            /\ ~obs'.ret
            /\ ~crashed'
            /\ m_server' = m_server
            /\ m_subscriptions' = m_subscriptions ]_vars


\* the three hook tables, in the order of registerPublishHandler's arguments
HookTables == << m_subscribeHandlers, m_publishRequestHandlers, m_publishResponseHandlers >>

\* the hooks a delivery task or the /subscribe handler carries, in the same order
HooksOf(r) == << r.subscribeHandler, r.requestHandler, r.responseHandler >>

\* C16: a registerPublishHandler call sets each hook slot of its id to its argument
\* when that is non-null and leaves it otherwise, no other slot and no other step
\* changes a hook table, so a slot holds the last non-null hook given for it and is
\* never emptied; /subscribe takes as its snapshot the hooks the tables hold at that
\* moment and calls and submits those, and publishMessage submits the request and
\* response hooks the tables hold when it is called
LastHookWins ==
    [][ /\ obs'.op = "registerPublishHandler" =>
               \A k \in 1..3, id \in Ids :
                   Lookup(HookTables'[k], id) =
                       IF id = obs'.id /\ obs'.hooks[k] # Null
                       THEN obs'.hooks[k] ELSE Lookup(HookTables[k], id)
        /\ obs'.op # "registerPublishHandler" => HookTables' = HookTables
        /\ obs'.op = "snapshot" =>
               HooksOf(handlerThread') =
                   << Lookup(m_subscribeHandlers, handlerThread.id),
                      Lookup(m_publishRequestHandlers, handlerThread.id),
                      Lookup(m_publishResponseHandlers, handlerThread.id) >>
        /\ (obs'.op = "handlerTask" /\ handlerThread.pc = "hooks") =>
               /\ obs'.hookCalled = (handlerThread.subscribeHandler # Null)
               /\ \A k \in (Len(m_publishExecutor) + 1)..Len(m_publishExecutor') :
                     /\ m_publishExecutor'[k].requestHandler = handlerThread.requestHandler
                     /\ m_publishExecutor'[k].responseHandler =
                            handlerThread.responseHandler
        /\ obs'.op = "publishMessage" =>
               \A k \in (Len(m_publishExecutor) + 1)..Len(m_publishExecutor') :
                   /\ m_publishExecutor'[k].requestHandler =
                          Lookup(m_publishRequestHandlers, obs'.id)
                   /\ m_publishExecutor'[k].responseHandler =
                          Lookup(m_publishResponseHandlers, obs'.id)
      ]_vars

\* C16 happens: /subscribe takes its snapshot after the request hook was replaced by
\* a call whose null response hook left the slot the earlier call had filled
ReplacedHooksSnapshotted ==
    /\ obs.op = "snapshot"
    /\ HooksOf(handlerThread) = << "subscribe1", "request1", "response2" >>


\* the /subscribe handler ends after having added a subscriber that was not in the
\* list of a topic whose request hook is registered
NewSubscriberFinishes ==
    /\ obs'.op = "handlerTask"
    /\ handlerThread.pc = "hooks"
    /\ handlerThread.added
    /\ handlerThread.requestHandler # Null

\* C17: a /subscribe that added a new subscriber s to a topic with a request hook
\* submits exactly one delivery, for s and with no caller message; when that delivery
\* runs and the hook returns the payload B, the request performed carries B as its
\* body and goes to s
NewSubscriberPrimed ==
    [][ /\ NewSubscriberFinishes =>
               /\ Len(m_publishExecutor') = Len(m_publishExecutor) + 1
               /\ Appended(m_publishExecutor, m_publishExecutor')
               /\ LET task == m_publishExecutor'[Len(m_publishExecutor')] IN
                  /\ task.id = handlerThread.id
                  /\ task.subscriber = handlerThread.subscriber
                  /\ task.message = NullPointer
        /\ (/\ obs'.op = "perform"
            /\ obs'.called
            /\ obs'.hook.ret /\ ~obs'.hook.fault /\ obs'.hook.response.type # "null") =>
               /\ publishThread'.task = Head(m_publishExecutor)
               /\ publishThread'.body = Serialize(obs'.hook.response)
      ]_vars


\* addSubscription and removeSubscription called a second time with the arguments of
\* a first call made in the present state
SecondAdd(id, s) == addSubscription(addSubscription(m_subscriptions, id, s).subs, id, s)

SecondRemove(id, s) ==
    removeSubscription(removeSubscription(m_subscriptions, id, s).subs, id, s)

\* C20 as stated: for an existing topic the second add(id, s) and the second
\* remove(id, s) return false, the second add leaves the list size unchanged and
\* neither writes to local storage
SecondCallReturnsFalse ==
    \A id \in DOMAIN m_subscriptions, s \in {SubscriberA, SubscriberB} :
        /\ ~SecondAdd(id, s).ret
        /\ ~SecondRemove(id, s).ret
        /\ Len(SecondAdd(id, s).subs[id]) =
               Len(addSubscription(m_subscriptions, id, s).subs[id])
        /\ ~SecondAdd(id, s).write
        /\ ~SecondRemove(id, s).write

\* C20: for an existing topic the second add(id, s) and the second remove(id, s)
\* change no list, so the size is unchanged, and write nothing to local storage, only
\* Subscriptions::add and Subscriptions::remove answering false: addSubscription and
\* removeSubscription return true as for any existing topic; a /subscribe that
\* repeats an earlier one takes this second call
SecondCallChangesNothing ==
    /\ \A id \in DOMAIN m_subscriptions, s \in {SubscriberA, SubscriberB} :
          LET added == addSubscription(m_subscriptions, id, s).subs
              removed == removeSubscription(m_subscriptions, id, s).subs
          IN /\ SecondAdd(id, s) = [ret |-> TRUE, write |-> FALSE, subs |-> added]
             /\ ~SubscriptionsAdd(added[id], s).ret
             /\ SecondRemove(id, s) = [ret |-> TRUE, write |-> FALSE, subs |-> removed]
             /\ ~SubscriptionsRemove(removed[id], s).ret
             /\ \A order \in TopicOrders(added) :
                   Stored(storage, SecondAdd(id, s), order, TRUE) = storage
             /\ \A order \in TopicOrders(removed) :
                   Stored(storage, SecondRemove(id, s), order, TRUE) = storage
    /\ (obs.op = "addSubscription" /\ ~obs.write) =>
           /\ obs.ret
           /\ ~handlerThread.added
           /\ Contains(m_subscriptions[handlerThread.id], handlerThread.subscriber)

\* C20 happens: a /subscribe was repeated for a subscriber of a list of two and its
\* addSubscription returned true without a write
SecondAddSeen ==
    /\ obs.op = "addSubscription"
    /\ obs.ret
    /\ ~obs.write
    /\ Len(m_subscriptions[handlerThread.id]) = 2


\* the mutex is held by a thread other than the given one
HeldByAnother(thread) == m_subscriptionMutex.holder \notin {Null, thread}

\* the step looks up or changes the topic table, a hook table or a subscriber list;
\* all such steps but those of registerPublishHandler are taken by other threads than
\* the collaborator's that registers
AccessByOthers ==
    \/ obs'.op \in {"start", "publishMessage", "addSubscription", "snapshot", "deliver"}
    \/ Takes(BuiltinSubscribe)
    \/ Takes(BuiltinUnsubscribe)

\* C18: a step that reads or writes the topic table, a hook table or a subscriber list
\* is taken by a thread that holds the subscription mutex, so never while another
\* thread holds it; the lookup of /subscribe therefore answers what the topic table
\* holds and does not end the process
AccessesHoldMutex ==
    [][ /\ AccessByOthers => ~HeldByAnother("other")
        /\ obs'.op = "registerPublishHandler" => ~HeldByAnother("collaborator")
        /\ Takes(BuiltinSubscribe) =>
               /\ ~crashed'
               /\ (handlerThread'.pc = "addSubscription") = TopicKnown(Request.id)
      ]_vars


\* the /subscribe handler ends in this step, after its subscribe hook (if any) ran
SubscribeEnds == obs'.op = "handlerTask" /\ handlerThread.pc = "hooks"

RetryTasks ==
    { [Delivery("t", p[2], MessageDocument, Null, Null) EXCEPT !.history = h] :
        p \in RetryPairs, h \in {"first", "retry", "resent"} }

Queued(d) == \E k \in 1..Len(m_publishExecutor) : m_publishExecutor[k] = d

\* the publish executor's thread has taken the delivery: it performs it, or has given
\* it up before curl_easy_perform
Attempted(d) ==
    \/ publishThread.pc = "perform" /\ publishThread.task = d
    \/ obs.op = "deliver" /\ obs.outcome = NotPerformed /\ obs.task = d

\* C21: the publish executor's thread takes the head of the queue, one delivery at a
\* time, a timed-out delivery is appended behind the queued ones, and so, the thread
\* taking a step whenever it can, every queued delivery is eventually attempted,
\* however often other deliveries time out and are retried
EveryDeliveryAttempted ==
    /\ [][ /\ (publishThread.pc = "idle" /\ publishThread'.pc = "perform") =>
                  /\ m_publishExecutor # << >>
                  /\ publishThread'.task = Head(m_publishExecutor)
                  /\ m_publishExecutor' = Tail(m_publishExecutor)
           /\ publishThread.pc = "perform" =>
                  \/ publishThread' = publishThread
                  \/ /\ publishThread'.pc = "idle"
                     /\ Appended(m_publishExecutor, m_publishExecutor')
           /\ (Ends /\ obs'.retry) =>
                  m_publishExecutor' =
                      Append(m_publishExecutor, Retried(publishThread.task, obs'.outcome))
         ]_vars
    /\ \A d \in RetryTasks : Queued(d) ~> Attempted(d)

\* C21 happens: the delivery to one subscriber is performed while the delivery to the
\* other, which has timed out more than once, waits in the queue again
AttemptedBehindRetries ==
    /\ publishThread.pc = "perform"
    /\ publishThread.task.subscriber = SubscriberB
    /\ obs.op = "perform"
    /\ Len(m_publishExecutor) = 1
    /\ m_publishExecutor[1].subscriber = SubscriberA
    /\ m_publishExecutor[1].history # "first"


\* the thread waits in a lock_guard's constructor for a mutex that is held
Blocked(t) == At(t, "lock") /\ Holder(Instruction(t).arg) # Null

\* a hook or a handler has just been invoked on the thread
Invoked(t) ==
    /\ calls[t] # << >>
    /\ Top(t).op \in {"callable", "subscribeHandler", "unsubscribeHandler"}
    /\ Top(t).pc = 1

\* C22: no thread holds m_handlerMutex and m_subscriptionMutex together; a thread
\* that is about to lock a mutex holds none, so it neither locks again the mutex it
\* holds nor waits while holding one; every hook and handler is invoked on a thread
\* that holds none; hence a thread that waits for a mutex waits for another thread
\* that is in a call and does not wait, and whenever a thread is in a call some
\* thread can take a step: there is no deadlock, whatever the hooks and handlers
\* call back
NoLockHeldAcrossCalls ==
    /\ \A t \in Threads :
          /\ Holds(t) # {"m_handlerMutex", "m_subscriptionMutex"}
          /\ At(t, "lock") => Holds(t) = {}
          /\ Invoked(t) => Holds(t) = {}
          /\ calls[t] = << >> => Holds(t) = {}
          /\ Blocked(t) =>
                LET owner == Holder(Instruction(t).arg) IN
                /\ owner \in Threads \ {t}
                /\ calls[owner] # << >>
                /\ ~Blocked(owner)
    /\ (\E t \in Threads : calls[t] # << >>) => ENABLED (\E t \in Threads : Runs(t))

\* C22 happens: a request hook running on the publish executor's thread has called
\* publishMessage and holds m_subscriptionMutex; the acceptor holds m_handlerMutex in
\* handleRequest; the handler executor's thread, in a subscribe hook that calls
\* registerPublishHandler, and a collaborator calling publishMessage wait for
\* m_subscriptionMutex
CallbacksContend ==
    /\ Len(calls["publisher"]) = 3
    /\ calls["publisher"][2].op = "callable"
    /\ Top("publisher").op = "publishMessage"
    /\ Holds("publisher") = {"m_subscriptionMutex"}
    /\ Holds("acceptor") = {"m_handlerMutex"}
    /\ Len(calls["handler"]) = 3
    /\ calls["handler"][1].op = "subscribeHandler"
    /\ Top("handler").op = "registerPublishHandler"
    /\ Blocked("handler")
    /\ Blocked("collaborator")

====
